---- MODULE Spec2Model ----
(***************************************************************************)
(* Model of the as-pect command line runner (src/src/cli.ts, function asp, *)
(* the "run the compiler and test suite" branch).                          *)
(*                                                                         *)
(* Strings are sequences of tokens.  A token is one character, a path      *)
(* separator "/" or a dotted extension such as ".ts" or ".wasm".           *)
(* Unit indices are 1-based here (the i of testEntryFiles.forEach is       *)
(* 0-based in the source).                                                 *)
(***************************************************************************)
EXTENDS Integers, Sequences, FiniteSets, TLC

\* ------------------------------------------------------------------ bounds
MaxUnits == 3        \* largest number of include matches in Spec
MaxPathLen == 2      \* longest path (in tokens) in ResolveSpec
MaxMatches == 2      \* longest match list of one include pattern in ResolveSpec
MaxPatterns == 2     \* most include patterns in ResolveSpec
MaxDisclude == 1     \* most exclude expressions in ResolveSpec
MaxAddMatches == 2   \* longest match list of one add pattern in ArgsSpec
MaxAddPatterns == 2  \* most add patterns in ArgsSpec

\* ------------------------------------------------------------ helpers
RECURSIVE SeqsUpTo(_, _)
SeqsUpTo(S, n) ==
  IF n = 0 THEN {<<>>}
  ELSE LET shorter == SeqsUpTo(S, n - 1)
       IN  shorter \cup {Append(s, x) : s \in {t \in shorter : Len(t) = n - 1}, x \in S}

Range(s) == {s[k] : k \in DOMAIN s}

MinOf(S) == CHOOSE x \in S : \A y \in S : x <= y

\* ------------------------------------------------- RegExp.prototype.test
\* A regular expression of the disclude list: a literal source, the global
\* and sticky flags and the lastIndex property that test() reads and writes.
Chars == {"a", "b"}

MatchAt(src, s, k) ==
  /\ k + Len(src) <= Len(s)
  /\ \A j \in 1..Len(src) : s[k + j] = src[j]

Stateful(re) == re.global \/ re.sticky

StartIndex(re) == IF Stateful(re) THEN re.lastIndex ELSE 0

\* the 0-based positions at which test() may report a match
MatchPositions(re, s) ==
  LET start == StartIndex(re)
      cand  == IF re.sticky THEN {start} ELSE start..Len(s)
  IN  {k \in cand : k <= Len(s) /\ MatchAt(re.src, s, k)}

\* regexp.test(file): the boolean result
RegExpTest(re, s) == MatchPositions(re, s) # {}

\* regexp.test(file): the regular expression after the call
RegExpAfterTest(re, s) ==
  IF ~Stateful(re) THEN re
  ELSE IF RegExpTest(re, s)
       THEN [re EXCEPT !.lastIndex = MinOf(MatchPositions(re, s)) + Len(re.src)]
       ELSE [re EXCEPT !.lastIndex = 0]

\* what "file matches the exclude expression" means: the result of test()
\* on the expression as written in the configuration, lastIndex 0
Matches(re, s) == RegExpTest([re EXCEPT !.lastIndex = 0], s)

\* --------------------------------------------------------- FileResolver
\* for (const pattern of include) testEntryFiles.push(...glob.sync(pattern))
RECURSIVE GlobAll(_)
GlobAll(matchLists) ==
  IF matchLists = <<>> THEN <<>>
  ELSE Head(matchLists) \o GlobAll(Tail(matchLists))

RECURSIVE uniqKeepLast(_)
uniqKeepLast(files) ==
  IF files = <<>> THEN <<>>
  ELSE LET rest == uniqKeepLast(Tail(files))
       IN  IF Head(files) \in Range(rest) THEN rest ELSE <<Head(files)>> \o rest

\* lodash.uniq: keeps the first occurrence of every value, in order
RECURSIVE uniq(_)
uniq(files) ==
  IF files = <<>> THEN <<>>
  ELSE LET init == uniq(SubSeq(files, 1, Len(files) - 1))
           last == files[Len(files)]
       IN  IF last \in Range(init) THEN init ELSE Append(init, last)

\* testEntryFiles.filter(file => !regexp.test(file)) for one regexp; the
\* regexp object is the same for every file, so lastIndex carries over
RECURSIVE FilterOne(_, _)
FilterOne(re, files) ==
  IF files = <<>> THEN [kept |-> <<>>, re |-> re]
  ELSE LET f    == Head(files)
           hit  == RegExpTest(re, f)
           rest == FilterOne(RegExpAfterTest(re, f), Tail(files))
       IN  [kept |-> IF hit THEN rest.kept ELSE <<f>> \o rest.kept,
            re   |-> rest.re]

\* disclude.forEach(regexp => testEntryFiles = testEntryFiles.filter(...))
RECURSIVE FilterAll(_, _)
FilterAll(res, files) ==
  IF res = <<>> THEN [kept |-> files, res |-> <<>>]
  ELSE LET one  == FilterOne(Head(res), files)
           rest == FilterAll(Tail(res), one.kept)
       IN  [kept |-> rest.kept, res |-> <<one.re>> \o rest.res]

\* ------------------------------------------------------ units and outcomes
\* What the collaborators do with unit i (compiler, loader, guest), fixed
\* for one run of the pipeline:
\*   pass      binary and source map emitted, instantiated, runner.pass
\*   fail      as pass, but runner.pass is false
\*   error     the completion callback receives an Error
\*   nobinary  no error, only a text artifact was written
\*   trap      binary emitted, instantiateBuffer throws
\* The compiler calls the completion callback of every compile it was asked
\* for, after the last writeFile call of that compile.
Outcomes == {"pass", "fail", "error", "nobinary", "trap"}

\* names of the artifacts the compiler hands to writeFile, in order
BinaryName == <<"o", ".wasm">>
MapName == <<"o", ".wasm", ".map">>
TextName == <<"o", ".wat">>

Artifacts(o) ==
  CASE o \in {"pass", "fail"} -> <<BinaryName, MapName>>
    [] o = "trap"             -> <<BinaryName>>
    [] o = "nobinary"         -> <<TextName>>
    [] OTHER                  -> <<>>

CompileError(o) == o = "error"
InstantiateOk(o) == o # "trap"
RunnerPass(o) == o = "pass"

\* binaries[i] while nothing was stored under i (undefined in the source)
None == 0

\* exitCode while the process is alive
Running == -1

VARIABLES
  pc,              \* "config", "start", "loop" (forEach / waiting), "ended"
  includeMatches,  \* glob.sync(pattern) for every include pattern, in order
  disclude,        \* configuration.disclude, with each lastIndex
  testEntryFiles,  \* let testEntryFiles
  outcome,         \* per unit: what compiler, loader and guest will do
  issued,          \* number of asc.main calls made by the forEach
  written,         \* per unit: number of writeFile calls received
  completed,       \* units whose completion callback has fired
  binaries,        \* let binaries: index -> contents
  sourcemaps,      \* let sourcemaps: names present
  disk,            \* files written by fs.writeFileSync
  instantiated,    \* units for which instantiateBuffer returned a module
  ran,             \* units for which runner.run was called
  reported,        \* what the reporter was given, in order
  count,           \* let count
  failed,          \* let failed
  exitCalls,       \* number of process.exit(1) calls
  configLoad,      \* "pending", then "ok" or "threw": require(configurationPath)
  configFlags,     \* configuration.flags: given or not, and the mapping
  addMatches,      \* glob.sync(pattern) for every add pattern, in order
  addedTestEntryFiles, \* let addedTestEntryFiles
  flagList,        \* const flagList
  compileArgs,     \* the argument list of every asc.main call, in call order
  contexts,        \* number of TestContext objects created
  events,          \* what happened to which unit, in order
  exitCode,        \* Running while the process lives, then 0 or 1
  suite,           \* the registered groups, outermost first
  emptyGroupHooks, \* whether the All-hooks of a group without tests fire
  level,           \* the group being executed, 0 outside every group
  mode,            \* "idle", "enter" (going down), "exit" (going up), "done"
  testIdx,         \* tests of the current group already run
  trace,           \* hooks and tests in the order they were executed
  expectation,     \* the Expectation under construction, if any
  verdicts,        \* the verdicts reported so far
  evaluations      \* number of matcher evaluations so far

\* the state of asp
host == <<pc, includeMatches, disclude, testEntryFiles, outcome, issued,
          written, completed, binaries, sourcemaps, disk, instantiated,
          ran, reported, count, failed, exitCalls, exitCode, configLoad,
          configFlags, addMatches, addedTestEntryFiles, flagList, compileArgs,
          contexts, events>>

\* the state of the test file being executed
guest == <<suite, emptyGroupHooks, level, mode, testIdx, trace, expectation,
           verdicts, evaluations>>

vars == <<host, guest>>

N == Len(testEntryFiles)
Units == 1..N

\* ------------------------------------------------------------------ inputs
NoFlags(src) == [src |-> src, global |-> FALSE, sticky |-> FALSE, lastIndex |-> 0]
GlobalRe(src) == [src |-> src, global |-> TRUE, sticky |-> FALSE, lastIndex |-> 0]
StickyRe(src) == [src |-> src, global |-> FALSE, sticky |-> TRUE, lastIndex |-> 0]

\* glob.sync returns each matching file once
NoRepeat(s) == \A j, k \in DOMAIN s : j # k => s[j] # s[k]

\* the spec files of the pipeline runs
PathList ==
  << <<"a", ".ts">>, <<"d", "/", "b", ".ts">>, <<"d", "/", "a", ".ts">>,
     <<"b", ".ts">>, <<"a", "b", ".ts">>, <<"d", "/", "a", "b", ".ts">> >>

PipelineIncludes == { <<SubSeq(PathList, 1, n)>> : n \in 0..MaxUnits }

PipelineDiscludes ==
  { <<>>, <<NoFlags(<<"d", "/">>)>>, <<NoFlags(<<"a">>), NoFlags(<<"b">>)>> }

\* configuration.flags as given, or not given at all
FlagsGiven(map) == [given |-> TRUE, map |-> map]
FlagsAbsent == [given |-> FALSE, map |-> <<>>]

Flag(name, options) == [flag |-> name, options |-> options]

\* the helper files of the pipeline runs
HelperMatches == << <<<<"d", "/", "h", ".ts">>>> >>

\* the inputs of the compiler argument lists
HelperPaths == { <<"h", ".ts">>, <<"d", "/", "h", ".ts">>, <<"a", ".ts">> }
ArgsAddLists == {m \in SeqsUpTo(HelperPaths, MaxAddMatches) : NoRepeat(m)}
ArgsAddMatches == SeqsUpTo(ArgsAddLists, MaxAddPatterns)
ArgsDiscludes == PipelineDiscludes \cup { <<NoFlags(<<"h">>)>> }
ArgsFlags ==
  { FlagsAbsent,
    FlagsGiven(<<>>),
    FlagsGiven(<<Flag("--binaryFile", <<"o.wasm">>)>>),
    FlagsGiven(<<Flag("--textFile", <<"o.wat">>), Flag("--debug", <<>>)>>),
    FlagsGiven(<<Flag("--debug", <<>>), Flag("--use", <<"x=y", "z=w">>),
                 Flag("--binaryFile", <<"o.wasm">>)>>) }

\* the inputs of the file resolution on its own
ResolvePaths == SeqsUpTo(Chars, MaxPathLen) \ {<<>>}
ResolveSources == SeqsUpTo(Chars, 1) \ {<<>>}
ResolveRegExps ==
  {NoFlags(s) : s \in ResolveSources} \cup {GlobalRe(s) : s \in ResolveSources}
    \cup {StickyRe(s) : s \in ResolveSources}

ResolveMatchLists == {m \in SeqsUpTo(ResolvePaths, MaxMatches) : NoRepeat(m)}

\* no test file is being executed
GuestIdle ==
  /\ suite = <<>>
  /\ emptyGroupHooks = FALSE
  /\ level = 0
  /\ mode = "idle"
  /\ testIdx = 0
  /\ trace = <<>>
  /\ expectation = <<>>
  /\ verdicts = <<>>
  /\ evaluations = 0

InitCommon ==
  /\ events = <<>>
  /\ testEntryFiles = <<>>
  /\ addedTestEntryFiles = <<>>
  /\ flagList = <<>>
  /\ compileArgs = <<>>
  /\ contexts = 0
  /\ issued = 0
  /\ written = <<>>
  /\ completed = {}
  /\ binaries = <<>>
  /\ sourcemaps = {}
  /\ disk = {}
  /\ instantiated = {}
  /\ ran = {}
  /\ reported = <<>>
  /\ count = 0
  /\ failed = FALSE
  /\ exitCalls = 0
  /\ exitCode = Running

\* asp is about to load the configuration file
Init ==
  /\ InitCommon
  /\ GuestIdle
  /\ pc = "config"
  /\ configLoad = "pending"
  /\ includeMatches \in PipelineIncludes
  /\ disclude \in PipelineDiscludes
  /\ addMatches = HelperMatches
  /\ configFlags = FlagsAbsent
  /\ outcome \in [1..MaxUnits -> Outcomes]

\* the configuration is loaded, every unit will pass; add patterns and flags vary
InitArgs ==
  /\ InitCommon
  /\ GuestIdle
  /\ pc = "start"
  /\ configLoad = "ok"
  /\ includeMatches \in PipelineIncludes
  /\ disclude \in ArgsDiscludes
  /\ addMatches \in ArgsAddMatches
  /\ configFlags \in ArgsFlags
  /\ outcome = [i \in 1..MaxUnits |-> "pass"]

\* the configuration is loaded; include matches and exclude expressions vary
InitResolve ==
  /\ InitCommon
  /\ GuestIdle
  /\ pc = "start"
  /\ configLoad = "ok"
  /\ addMatches = HelperMatches
  /\ configFlags = FlagsAbsent
  /\ includeMatches \in (SeqsUpTo(ResolveMatchLists, MaxPatterns) \ {<<>>})
  /\ disclude \in SeqsUpTo(ResolveRegExps, MaxDisclude)
  /\ outcome = [i \in 1..(MaxPatterns * MaxMatches) |-> "pass"]

\* ------------------------------------------------------------ path module
ExtTokens == {".ts", ".wasm", ".map", ".wat"}

LastSep(p) ==
  LET seps == {k \in DOMAIN p : p[k] = "/"}
  IN  IF seps = {} THEN 0 ELSE CHOOSE k \in seps : \A j \in seps : j <= k

\* path.basename(p)
BaseName(p) == SubSeq(p, LastSep(p) + 1, Len(p))

\* path.extname(p): the last extension of the base name, "" when none
ExtName(p) ==
  LET b == BaseName(p)
  IN  IF Len(b) >= 2 /\ b[Len(b)] \in ExtTokens THEN b[Len(b)] ELSE ""

\* path.basename(p, path.extname(p))
StemName(p) ==
  LET b == BaseName(p)
  IN  IF ExtName(p) = "" THEN b ELSE SubSeq(b, 1, Len(b) - 1)

\* path.dirname(p), << >> standing for "."
DirName(p) == SubSeq(p, 1, LastSep(p) - 1)

\* path.join(path.dirname(file), path.basename(file, path.extname(file)) + ext)
OutfileName(file, ext) ==
  LET tail == StemName(file) \o (IF ext = "" THEN <<>> ELSE <<ext>>)
  IN  IF DirName(file) = <<>> THEN tail ELSE DirName(file) \o <<"/">> \o tail

\* ---------------------------------------------------------------- actions
AliveAlways == TRUE

\* the process runs code only until process.exit or an uncaught exception
Alive == exitCode = Running

\* process.exit(1)
ProcessExit1 ==
  /\ exitCalls' = exitCalls + 1
  /\ exitCode' = 1
  /\ pc' = "ended"

LoadConfigurationNoExit ==
  /\ pc = "config"
  /\ \E ok \in BOOLEAN : configLoad' = (IF ok THEN "ok" ELSE "threw")
  /\ pc' = "start"
  /\ UNCHANGED events
  /\ UNCHANGED guest
  /\ UNCHANGED <<includeMatches, addMatches, configFlags, disclude,
                 testEntryFiles, addedTestEntryFiles, flagList, outcome,
                 issued, compileArgs, written, completed, binaries, sourcemaps,
                 disk, instantiated, contexts, ran, reported, count, failed,
                 exitCalls, exitCode>>

\* cli.ts 117-132: require(configurationPath) || {}; process.exit(1) when the
\* require throws (the result is never falsy, so line 129 never exits)
LoadConfiguration ==
  /\ pc = "config"
  /\ \E ok \in BOOLEAN :
       IF ok
       THEN /\ configLoad' = "ok"
            /\ pc' = "start"
            /\ UNCHANGED <<exitCalls, exitCode>>
       ELSE /\ configLoad' = "threw"
            /\ ProcessExit1
  /\ UNCHANGED events
  /\ UNCHANGED guest
  /\ UNCHANGED <<includeMatches, addMatches, configFlags, disclude,
                 testEntryFiles, addedTestEntryFiles, flagList, outcome,
                 issued, compileArgs, written, completed, binaries, sourcemaps,
                 disk, instantiated, contexts, ran, reported, count, failed>>

\* cli.ts 136-143: const flags = configuration.flags || { ...defaults }
DefaultFlags ==
  << Flag("--validate", <<>>), Flag("--debug", <<>>), Flag("--measure", <<>>),
     Flag("--sourceMap", <<>>), Flag("--binaryFile", <<"output.wasm">>) >>

FlagsOfRepaired(cf) ==
  IF cf.given
  THEN cf.map \o SelectSeq(DefaultFlags,
                           LAMBDA d : \A k \in DOMAIN cf.map : cf.map[k].flag # d.flag)
  ELSE DefaultFlags

\* cli.ts 136-143: configuration.flags || { the default flags }
FlagsOf(cf) == IF cf.given THEN cf.map ELSE DefaultFlags

RECURSIVE FlagListOptionsFirst(_)
FlagListOptionsFirst(flags) ==
  IF flags = <<>> THEN <<>>
  ELSE LET last == flags[Len(flags)]
       IN  FlagListOptionsFirst(SubSeq(flags, 1, Len(flags) - 1))
             \o last.options \o <<last.flag>>

\* cli.ts 189-191: Object.entries(flags).reduce((args, [flag, options]) =>
\* args.concat(flag, options), [])
RECURSIVE FlagList(_)
FlagList(flags) ==
  IF flags = <<>> THEN <<>>
  ELSE LET last == flags[Len(flags)]
       IN  FlagList(SubSeq(flags, 1, Len(flags) - 1)) \o <<last.flag>> \o last.options

Event(kind, i) == [kind |-> kind, unit |-> i]

\* cli.ts 215-229: the callback fired; count -= 1, then process.exit(1)
FatalEvents(i) == <<Event("complete", i), Event("decrement", i)>>

\* cli.ts 215-233: the callback fired; instantiateBuffer threw
ThrowEvents(i) == <<Event("complete", i)>>

\* cli.ts 215-239: the callback fired; instantiateBuffer, runner.run, then
\* count -= 1 and failed = failed || !runner.pass
RunEvents(i) ==
  <<Event("complete", i), Event("instantiate", i), Event("run", i),
    Event("decrement", i)>>

\* cli.ts 178-179: path.relative(process.cwd(), path.join(__dirname, "../assembly/index.ts"))
RelativeEntryPath == <<"assembly", "/", "index", ".ts">>

AddedEntryFilesFiltered(matchLists) ==
  Append(FilterAll(disclude, GlobAll(matchLists)).kept, RelativeEntryPath)

\* cli.ts 160-163, 181: the add matches, then the entry file of as-pect
AddedEntryFiles(matchLists) == Append(GlobAll(matchLists), RelativeEntryPath)

\* cli.ts 197: [file, ...addedTestEntryFiles, ...flagList]
CompilerArgs(file, added, tokens) == <<file>> \o added \o tokens

\* cli.ts 150-186: resolve the spec files, set up binaries, failed and count
ResolveFiles ==
  /\ pc = "start"
  /\ addedTestEntryFiles' = AddedEntryFiles(addMatches)
  /\ flagList' = FlagList(FlagsOf(configFlags))
  /\ LET r == FilterAll(disclude, uniq(GlobAll(includeMatches)))
     IN  /\ testEntryFiles' = r.kept
         /\ disclude' = r.res
         /\ count' = Len(r.kept)
         /\ binaries' = [i \in 1..Len(r.kept) |-> None]
         /\ written' = [i \in 1..Len(r.kept) |-> 0]
  /\ sourcemaps' = {}
  /\ failed' = FALSE
  /\ pc' = "loop"
  /\ UNCHANGED events
  /\ UNCHANGED guest
  /\ UNCHANGED <<includeMatches, addMatches, configFlags, configLoad, outcome,
                 issued, compileArgs, completed, disk, instantiated, contexts,
                 ran, reported, exitCalls, exitCode>>

IssueOffByOne ==
  /\ pc = "loop"
  /\ Alive
  /\ issued <= N
  /\ issued' = issued + 1
  /\ compileArgs' = Append(compileArgs,
       CompilerArgs(IF issued < N THEN testEntryFiles[issued + 1] ELSE <<>>,
                    addedTestEntryFiles, flagList))
  /\ events' = events \o <<Event("issue", issued + 1)>>
  /\ UNCHANGED guest
  /\ UNCHANGED <<pc, includeMatches, addMatches, configFlags, configLoad,
                 disclude, testEntryFiles, addedTestEntryFiles, flagList,
                 outcome, written, completed, binaries, sourcemaps, disk,
                 instantiated, contexts, ran, reported, count, failed,
                 exitCalls, exitCode>>

\* one iteration of testEntryFiles.forEach: the asc.main call for the next file
Issue ==
  /\ pc = "loop"
  /\ Alive
  /\ issued < N
  /\ issued' = issued + 1
  /\ compileArgs' = Append(compileArgs,
       CompilerArgs(testEntryFiles[issued + 1], addedTestEntryFiles, flagList))
  /\ events' = events \o <<Event("issue", issued + 1)>>
  /\ UNCHANGED guest
  /\ UNCHANGED <<pc, includeMatches, addMatches, configFlags, configLoad,
                 disclude, testEntryFiles, addedTestEntryFiles, flagList,
                 outcome, written, completed, binaries, sourcemaps, disk,
                 instantiated, contexts, ran, reported, count, failed,
                 exitCalls, exitCode>>

InFlight(i) == i \in 1..issued /\ i \notin completed

\* cli.ts 231: const runner = new TestContext(), an object of its own
NewContext(n) == n + 1

\* cli.ts 204: binaries[i] = contents, keyed by the index of the forEach
BinaryKeyShared(i) == 1

BinaryKey(i) == i

WriteFileFallThrough(i) ==
  /\ Alive
  /\ InFlight(i)
  /\ written[i] < Len(Artifacts(outcome[i]))
  /\ LET name == Artifacts(outcome[i])[written[i] + 1]
         ext  == ExtName(name)
     IN  /\ binaries' = IF ext = ".wasm"
                        THEN [binaries EXCEPT ![BinaryKey(i)] = i] ELSE binaries
         /\ sourcemaps' = IF ext = ".map" THEN sourcemaps \cup {name} ELSE sourcemaps
         /\ disk' = disk \cup {OutfileName(testEntryFiles[i], ext)}
  /\ written' = [written EXCEPT ![i] = @ + 1]
  /\ UNCHANGED events
  /\ UNCHANGED guest
  /\ UNCHANGED <<pc, includeMatches, addMatches, configFlags, configLoad,
                 disclude, testEntryFiles, addedTestEntryFiles, flagList,
                 outcome, issued, compileArgs, completed, instantiated,
                 contexts, ran, reported, count, failed, exitCalls, exitCode>>

\* cli.ts 200-214: the writeFile sink of unit i, called by the compiler for
\* its next artifact; the contents are identified by the compile they come from
WriteFile(i) ==
  /\ Alive
  /\ InFlight(i)
  /\ written[i] < Len(Artifacts(outcome[i]))
  /\ LET name == Artifacts(outcome[i])[written[i] + 1]
         ext  == ExtName(name)
     IN  IF ext = ".wasm"
         THEN /\ binaries' = [binaries EXCEPT ![BinaryKey(i)] = i]
              /\ UNCHANGED <<sourcemaps, disk>>
         ELSE IF ext = ".map"
         THEN /\ sourcemaps' = sourcemaps \cup {name}
              /\ UNCHANGED <<binaries, disk>>
         ELSE /\ disk' = disk \cup {OutfileName(testEntryFiles[i], ext)}
              /\ UNCHANGED <<binaries, sourcemaps>>
  /\ written' = [written EXCEPT ![i] = @ + 1]
  /\ UNCHANGED events
  /\ UNCHANGED guest
  /\ UNCHANGED <<pc, includeMatches, addMatches, configFlags, configLoad,
                 disclude, testEntryFiles, addedTestEntryFiles, flagList,
                 outcome, issued, compileArgs, completed, instantiated,
                 contexts, ran, reported, count, failed, exitCalls, exitCode>>

CallbackDueAgain(i) ==
  /\ Alive
  /\ i \in 1..issued
  /\ written[i] = Len(Artifacts(outcome[i]))

\* the compiler calls the completion callback of unit i after its last write
CallbackDue(i) ==
  /\ Alive
  /\ InFlight(i)
  /\ written[i] = Len(Artifacts(outcome[i]))

CallbackErrorNoExit(i) ==
  /\ CallbackDue(i)
  /\ CompileError(outcome[i])
  /\ completed' = completed \cup {i}
  /\ count' = count - 1
  /\ events' = events \o FatalEvents(i)
  /\ UNCHANGED guest
  /\ UNCHANGED <<pc, includeMatches, addMatches, configFlags, configLoad,
                 disclude, testEntryFiles, addedTestEntryFiles, flagList,
                 outcome, issued, compileArgs, written, binaries, sourcemaps,
                 disk, instantiated, contexts, ran, reported, failed,
                 exitCalls, exitCode>>

\* cli.ts 217-222: if (error) { count -= 1; process.exit(1) }
CallbackError(i) ==
  /\ CallbackDue(i)
  /\ CompileError(outcome[i])
  /\ completed' = completed \cup {i}
  /\ count' = count - 1
  /\ ProcessExit1
  /\ events' = events \o FatalEvents(i)
  /\ UNCHANGED guest
  /\ UNCHANGED <<includeMatches, addMatches, configFlags, configLoad,
                 disclude, testEntryFiles, addedTestEntryFiles, flagList,
                 outcome, issued, compileArgs, written, binaries, sourcemaps,
                 disk, instantiated, contexts, ran, reported, failed>>

CallbackNoBinaryNoExit(i) ==
  /\ CallbackDue(i)
  /\ ~CompileError(outcome[i])
  /\ binaries[i] = None
  /\ completed' = completed \cup {i}
  /\ count' = count - 1
  /\ events' = events \o FatalEvents(i)
  /\ UNCHANGED guest
  /\ UNCHANGED <<pc, includeMatches, addMatches, configFlags, configLoad,
                 disclude, testEntryFiles, addedTestEntryFiles, flagList,
                 outcome, issued, compileArgs, written, binaries, sourcemaps,
                 disk, instantiated, contexts, ran, reported, failed,
                 exitCalls, exitCode>>

\* cli.ts 225-229: if (!binaries[i]) { count -= 1; process.exit(1) }
CallbackNoBinary(i) ==
  /\ CallbackDue(i)
  /\ ~CompileError(outcome[i])
  /\ binaries[i] = None
  /\ completed' = completed \cup {i}
  /\ count' = count - 1
  /\ ProcessExit1
  /\ events' = events \o FatalEvents(i)
  /\ UNCHANGED guest
  /\ UNCHANGED <<includeMatches, addMatches, configFlags, configLoad,
                 disclude, testEntryFiles, addedTestEntryFiles, flagList,
                 outcome, issued, compileArgs, written, binaries, sourcemaps,
                 disk, instantiated, contexts, ran, reported, failed>>

CallbackThrowSwallowed(i) ==
  /\ CallbackDue(i)
  /\ ~CompileError(outcome[i])
  /\ binaries[i] # None
  /\ ~InstantiateOk(outcome[i])
  /\ completed' = completed \cup {i}
  /\ contexts' = NewContext(contexts)
  /\ count' = count - 1
  /\ failed' = TRUE
  /\ events' = events \o ThrowEvents(i)
  /\ UNCHANGED guest
  /\ UNCHANGED <<pc, includeMatches, addMatches, configFlags, configLoad,
                 disclude, testEntryFiles, addedTestEntryFiles, flagList,
                 outcome, issued, compileArgs, written, binaries, sourcemaps,
                 disk, instantiated, ran, reported, exitCalls,
                 exitCode>>

\* cli.ts 231-233: instantiateBuffer throws; nothing in asp catches it, so the
\* exception is uncaught and the node process terminates with status 1
CallbackThrow(i) ==
  /\ CallbackDue(i)
  /\ ~CompileError(outcome[i])
  /\ binaries[i] # None
  /\ ~InstantiateOk(outcome[i])
  /\ completed' = completed \cup {i}
  /\ contexts' = NewContext(contexts)
  /\ exitCode' = 1
  /\ pc' = "ended"
  /\ events' = events \o ThrowEvents(i)
  /\ UNCHANGED guest
  /\ UNCHANGED <<includeMatches, addMatches, configFlags, configLoad,
                 disclude, testEntryFiles, addedTestEntryFiles, flagList,
                 outcome, issued, compileArgs, written, binaries, sourcemaps,
                 disk, instantiated, ran, reported, count, failed,
                 exitCalls>>

\* what the run of unit i gives to the reporter it was called with: the
\* result of that unit (TestContext.run is not part of the sources at hand)
UnitResult(ctx, i, bin, pass) ==
  [kind |-> "unit", runner |-> ctx, unit |-> i, binary |-> bin, pass |-> pass]

ReporterSkipped(rep, ctx, i, bin, pass) == rep

\* cli.ts 236: runner.run(wasm, reporter)
ReporterAfterRun(rep, ctx, i, bin, pass) ==
  Append(rep, UnitResult(ctx, i, bin, pass))

\* cli.ts 233: instantiateBuffer(binaries[i], imports)
InstantiatedFirst(bins, i) == bins[1]

InstantiatedBinary(bins, i) == bins[i]

ExitWhenFailed(c, f) == f

\* cli.ts 239: failed = failed || !runner.pass
FailedLastOnly(f, pass) == ~pass

FailedAnd(f, pass) == f /\ ~pass

FailedAfter(f, pass) == f \/ ~pass

\* cli.ts 242: if (count === 0 && failed)
ExitWhenDone(c, f) == c = 0

ExitInverted(c, f) == c = 0 /\ ~f

ExitDue(c, f) == c = 0 /\ f

\* cli.ts 231-245: instantiate, run with the reporter, count down, exit(1)
\* when this was the last unit and some unit failed
CallbackRun(i) ==
  /\ CallbackDue(i)
  /\ ~CompileError(outcome[i])
  /\ binaries[i] # None
  /\ InstantiateOk(outcome[i])
  /\ completed' = completed \cup {i}
  /\ contexts' = NewContext(contexts)
  /\ instantiated' = instantiated \cup {i}
  /\ ran' = ran \cup {i}
  /\ reported' = ReporterAfterRun(reported, NewContext(contexts), i,
                                  InstantiatedBinary(binaries, i),
                                  RunnerPass(outcome[i]))
  /\ count' = count - 1
  /\ failed' = FailedAfter(failed, RunnerPass(outcome[i]))
  /\ IF ExitDue(count', failed')
     THEN ProcessExit1
     ELSE UNCHANGED <<pc, exitCalls, exitCode>>
  /\ events' = events \o RunEvents(i)
  /\ UNCHANGED guest
  /\ UNCHANGED <<includeMatches, addMatches, configFlags, configLoad,
                 disclude, testEntryFiles, addedTestEntryFiles, flagList,
                 outcome, issued, compileArgs, written, binaries, sourcemaps,
                 disk>>

\* asp has returned and no callback is left to run: node ends the process
\* with status 0
Finish ==
  /\ pc = "loop"
  /\ Alive
  /\ issued = N
  /\ completed = Units
  /\ exitCode' = 0
  /\ pc' = "ended"
  /\ UNCHANGED events
  /\ UNCHANGED guest
  /\ UNCHANGED <<includeMatches, addMatches, configFlags, configLoad,
                 disclude, testEntryFiles, addedTestEntryFiles, flagList,
                 outcome, issued, compileArgs, written, completed, binaries,
                 sourcemaps, disk, instantiated, contexts, ran, reported,
                 count, failed, exitCalls>>

Next ==
  \/ LoadConfiguration
  \/ ResolveFiles
  \/ Issue
  \/ \E i \in Units : WriteFile(i)
  \/ \E i \in Units : CallbackError(i)
  \/ \E i \in Units : CallbackNoBinary(i)
  \/ \E i \in Units : CallbackThrow(i)
  \/ \E i \in Units : CallbackRun(i)
  \/ Finish

Spec == Init /\ [][Next]_vars

\* the file resolution on its own, over every small include / exclude input
NextResolve == ResolveFiles

ResolveSpec == InitResolve /\ [][NextResolve]_vars

\* the compiler argument lists on their own, over small add patterns and flags
NextArgs == ResolveFiles \/ Issue

ArgsSpec == InitArgs /\ [][NextArgs]_vars

\* ------------------------------------------------ groups, tests and hooks
MaxDepth == 2
MaxTests == 2

\* the hooks a describe body registers
HookSets ==
  { {}, {"beforeAll", "afterAll"}, {"beforeEach", "afterEach"},
    {"beforeAll", "afterAll", "beforeEach", "afterEach"},
    {"beforeAll"}, {"afterEach"} }

\* describe(...): a group with its hooks and the number of its tests
Groups == [hooks : HookSets, tests : 0..MaxTests]

\* nested describe calls, the outermost group first; the tests of a group
\* are registered ahead of its subgroup
Suites == SeqsUpTo(Groups, MaxDepth) \ {<<>>}

Hook(kind, g) == [kind |-> kind, group |-> g, test |-> 0]
Test(g, n) == [kind |-> "test", group |-> g, test |-> n]

\* group g has a test of its own or in a descendant
HasTests(g) == \E l \in g..Len(suite) : suite[l].tests > 0

\* beforeAll / afterAll of group g; whether they fire for a group without
\* any test is left open
FireAll(kind, g) ==
  IF kind \in suite[g].hooks /\ (HasTests(g) \/ emptyGroupHooks)
  THEN <<Hook(kind, g)>> ELSE <<>>

EnclosingOwn(g, kind) ==
  SelectSeq(<<g>>, LAMBDA l : kind \in suite[l].hooks)

\* the groups around a test of group g that registered the hook, outermost
\* first
Enclosing(g, kind) ==
  SelectSeq([l \in 1..g |-> l], LAMBDA l : kind \in suite[l].hooks)

\* beforeEach of the group and of its ancestors
BeforeEach(g) ==
  LET groups == Enclosing(g, "beforeEach")
  IN  [k \in 1..Len(groups) |-> Hook("beforeEach", groups[k])]

\* afterEach of the group and of its ancestors, innermost first
AfterEach(g) ==
  LET groups == Enclosing(g, "afterEach")
  IN  [k \in 1..Len(groups) |->
         Hook("afterEach", groups[Len(groups) + 1 - k])]

\* the asp process is not part of the run of a test file
HostIdle ==
  /\ InitCommon
  /\ pc = "config"
  /\ configLoad = "pending"
  /\ includeMatches = <<>>
  /\ disclude = <<>>
  /\ addMatches = <<>>
  /\ configFlags = FlagsAbsent
  /\ outcome = <<>>

\* the groups of a test file are registered, nothing was executed
InitHooks ==
  /\ HostIdle
  /\ suite \in Suites
  /\ emptyGroupHooks \in BOOLEAN
  /\ level = 0
  /\ mode = "enter"
  /\ testIdx = 0
  /\ trace = <<>>
  /\ expectation = <<>>
  /\ verdicts = <<>>
  /\ evaluations = 0

\* the next group is entered: its beforeAll fires
EnterGroup ==
  /\ mode = "enter"
  /\ level < Len(suite)
  /\ IF level = 0 THEN TRUE ELSE testIdx = suite[level].tests
  /\ level' = level + 1
  /\ testIdx' = 0
  /\ trace' = trace \o FireAll("beforeAll", level + 1)
  /\ UNCHANGED <<suite, emptyGroupHooks, mode, expectation, verdicts,
                 evaluations>>
  /\ UNCHANGED host

\* the next test of the current group runs between its each-hooks
RunTest ==
  /\ mode = "enter"
  /\ level >= 1
  /\ testIdx < suite[level].tests
  /\ testIdx' = testIdx + 1
  /\ trace' = trace \o BeforeEach(level) \o <<Test(level, testIdx + 1)>>
                \o AfterEach(level)
  /\ UNCHANGED <<suite, emptyGroupHooks, level, mode, expectation, verdicts,
                 evaluations>>
  /\ UNCHANGED host

\* the current group is left after its tests and its subgroup: its afterAll
\* fires
ExitGroup ==
  /\ mode \in {"enter", "exit"}
  /\ level >= 1
  /\ IF mode = "enter"
     THEN level = Len(suite) /\ testIdx = suite[level].tests
     ELSE TRUE
  /\ trace' = trace \o FireAll("afterAll", level)
  /\ level' = level - 1
  /\ mode' = IF level = 1 THEN "done" ELSE "exit"
  /\ UNCHANGED <<suite, emptyGroupHooks, testIdx, expectation, verdicts,
                 evaluations>>
  /\ UNCHANGED host

NextHooks == EnterGroup \/ RunTest \/ ExitGroup

HookSpec == InitHooks /\ [][NextHooks]_vars

\* ------------------------------------------------------------ expectations
MaxCalls == 2

Num(n) == [kind |-> "num", n |-> n]
NaNValue == [kind |-> "nan", n |-> 0]
NoArgument == [kind |-> "none", n |-> 0]

\* the values handed to expect
Values == {Num(0), Num(1), NaNValue}

Matchers == {"toBe", "toBeGreaterThan", "toBeLessThanOrEqual", "toBeNaN"}

\* the arguments a matcher is called with
Arguments(m) == IF m = "toBeNaN" THEN {NoArgument} ELSE {Num(0), Num(1)}

\* the verdict of a matcher: a comparison that involves NaN fails
MatcherVerdict(m, actual, expected) ==
  IF m = "toBeNaN" THEN actual.kind = "nan"
  ELSE IF actual.kind # "num" \/ expected.kind # "num" THEN FALSE
  ELSE IF m = "toBe" THEN actual.n = expected.n
  ELSE IF m = "toBeGreaterThan" THEN actual.n > expected.n
  ELSE actual.n <= expected.n

ReportedReevaluated(m, actual, expected, negated) ==
  IF negated /\ m = "toBeGreaterThan"
  THEN MatcherVerdict("toBeLessThanOrEqual", actual, expected)
  ELSE IF negated /\ m = "toBeLessThanOrEqual"
  THEN MatcherVerdict("toBeGreaterThan", actual, expected)
  ELSE MatcherVerdict(m, actual, expected) # negated

\* what a matcher call reports: its verdict, inverted by the negation flag
ReportedVerdict(m, actual, expected, negated) ==
  MatcherVerdict(m, actual, expected) # negated

\* a test body is being executed
InitExpect ==
  /\ HostIdle
  /\ suite = <<>>
  /\ emptyGroupHooks = FALSE
  /\ level = 0
  /\ mode = "expect"
  /\ testIdx = 0
  /\ trace = <<>>
  /\ expectation = <<>>
  /\ verdicts = <<>>
  /\ evaluations = 0

\* expect(value)
Expect(v) ==
  /\ mode = "expect"
  /\ expectation = <<>>
  /\ Len(verdicts) < MaxCalls
  /\ expectation' = <<[actual |-> v, negated |-> FALSE]>>
  /\ UNCHANGED <<suite, emptyGroupHooks, level, mode, testIdx, trace,
                 verdicts, evaluations>>
  /\ UNCHANGED host

\* .not: sets the negation flag and returns the same Expectation
Not ==
  /\ mode = "expect"
  /\ expectation # <<>>
  /\ expectation' = <<[expectation[1] EXCEPT !.negated = TRUE]>>
  /\ UNCHANGED <<suite, emptyGroupHooks, level, mode, testIdx, trace,
                 verdicts, evaluations>>
  /\ UNCHANGED host

\* a matcher call on the Expectation: evaluates the matcher, reports
Match(m, e) ==
  /\ mode = "expect"
  /\ expectation # <<>>
  /\ evaluations' = evaluations + 1
  /\ verdicts' =
       Append(verdicts,
              [actual |-> expectation[1].actual, matcher |-> m, expected |-> e,
               negated |-> expectation[1].negated,
               verdict |-> ReportedVerdict(m, expectation[1].actual, e,
                                           expectation[1].negated)])
  /\ expectation' = <<>>
  /\ UNCHANGED <<suite, emptyGroupHooks, level, mode, testIdx, trace>>
  /\ UNCHANGED host

NextExpect ==
  \/ \E v \in Values : Expect(v)
  \/ Not
  \/ \E m \in Matchers : \E e \in Arguments(m) : Match(m, e)

ExpectSpec == InitExpect /\ [][NextExpect]_vars

\* ------------------------------------------- the pipeline under given flags
\* what a compile can end in: the compiler emits a binary only when the
\* flag tokens ask for one
CompilerOutcomes(tokens) ==
  IF "--binaryFile" \in Range(tokens) THEN Outcomes ELSE {"error", "nobinary"}

\* asp is about to load a configuration file with or without flags
InitFlags ==
  /\ InitCommon
  /\ GuestIdle
  /\ pc = "config"
  /\ configLoad = "pending"
  /\ includeMatches \in PipelineIncludes
  /\ disclude = <<>>
  /\ addMatches = HelperMatches
  /\ configFlags \in ArgsFlags
  /\ outcome \in [1..MaxUnits -> CompilerOutcomes(FlagList(FlagsOf(configFlags)))]

FlagsSpec == InitFlags /\ [][Next]_vars

TypeOK ==
  /\ pc \in {"config", "start", "loop", "ended"}
  /\ configLoad \in {"pending", "ok", "threw"}
  /\ exitCode \in {Running, 0, 1}
  /\ issued \in 0..N
  /\ completed \subseteq 1..issued
  /\ ran \subseteq completed
  /\ failed \in BOOLEAN

\* ------------------------------------------------------------- properties
\* the configuration was loaded and the spec files are resolved
Resolved == configLoad = "ok" /\ pc \in {"loop", "ended"}

\* the pipeline has run and the process has ended
Ended == configLoad = "ok" /\ pc = "ended"

\* the outcomes of the resolved units
Planned == {outcome[i] : i \in Units}

Fatal == {"error", "nobinary", "trap"}

\* unit i went through its callback without being run
HitFatal(i) == i \in completed /\ i \notin ran

\* unit i was run and reported pass = false
ReportedFail(i) == i \in ran /\ ~RunnerPass(outcome[i])

\* C1: when no unit hits a fatal condition, every unit's run ends and at
\* least one ends with pass = false, the process ends with exit status 1,
\* whatever the order of the completion callbacks.
C1_FailMeansExit1 ==
  (Ended /\ N >= 1 /\ Planned \subseteq {"pass", "fail"} /\ "fail" \in Planned)
    => exitCode = 1

\* the failing unit completed first and every later unit passed
C1_Witness ==
  /\ Ended
  /\ N >= 2
  /\ Len(reported) = N
  /\ ~reported[1].pass
  /\ \A k \in 2..N : reported[k].pass
  /\ exitCode = 1

\* C2: when every resolved unit compiles, emits a binary and passes,
\* process.exit(1) is never called and the process ends with status 0.
C2_AllPassExit0 ==
  (Resolved /\ Planned \subseteq {"pass"})
    => (exitCalls = 0 /\ exitCode \in {Running, 0} /\ (Ended => exitCode = 0))

\* all units passed, completing in an order other than the issue order
C2_Witness ==
  /\ Ended
  /\ N >= 2
  /\ Planned = {"pass"}
  /\ ran = Units
  /\ reported[1].unit # 1
  /\ exitCode = 0

\* C3: a unit whose completion callback received an error has made the
\* process exit with status 1 in that callback, whatever count is and with
\* other units still in flight; the unit is never instantiated or run.
C3_CompileErrorFatal ==
  \A i \in Units :
    (i \in completed /\ CompileError(outcome[i]))
      => (Ended /\ exitCode = 1 /\ exitCalls = 1
            /\ i \notin instantiated /\ i \notin ran)

\* the error arrived while count was still above zero and another issued
\* unit had not completed
C3_Witness ==
  \E i \in Units :
    /\ i \in completed
    /\ CompileError(outcome[i])
    /\ count >= 1
    /\ \E j \in 1..issued : j # i /\ j \notin completed
    /\ exitCode = 1

\* C4: a unit whose compile completed without error while no binary was
\* captured under its index has made the process exit with status 1 in that
\* callback; the unit is never instantiated or run.
C4_MissingBinaryFatal ==
  \A i \in Units :
    (i \in completed /\ ~CompileError(outcome[i]) /\ binaries[i] = None)
      => (Ended /\ exitCode = 1 /\ exitCalls = 1
            /\ i \notin instantiated /\ i \notin ran)

\* a compile that wrote only a text artifact completed, others in flight
C4_Witness ==
  \E i \in Units :
    /\ i \in completed
    /\ outcome[i] = "nobinary"
    /\ binaries[i] = None
    /\ written[i] = 1
    /\ count >= 1
    /\ exitCode = 1

\* C5: the final status is 1 exactly when some unit reported pass = false
\* or produced no result at all (compile error, missing binary, instantiation
\* failure, or a completion that was never delivered because the process
\* had ended); otherwise it is 0.
C5_ExitStatus ==
  Ended =>
    /\ exitCode \in {0, 1}
    /\ exitCode = 1 <=> \E i \in Units : ReportedFail(i) \/ i \notin ran

\* status 1 with no failing run: one unit hit a fatal condition and the
\* completion of another issued unit was never delivered
C5_Witness ==
  /\ Ended
  /\ exitCode = 1
  /\ \A i \in Units : ~ReportedFail(i)
  /\ \E i \in Units : HitFatal(i)
  /\ \E j \in 1..issued : j \notin completed

\* C6: when the include patterns resolve to zero spec files no compile is
\* issued, no fatal exit happens and the process ends with status 0.
C6_ZeroUnits ==
  (Resolved /\ N = 0)
    => (issued = 0 /\ completed = {} /\ exitCalls = 0
          /\ exitCode \in {Running, 0} /\ (Ended => exitCode = 0))

\* the globs matched files and every one of them was excluded
C6_Witness ==
  /\ Ended
  /\ N = 0
  /\ GlobAll(includeMatches) # <<>>
  /\ exitCode = 0

\* C7: the resolved spec file list holds no path twice and no path that
\* matches one of the exclude expressions.
C7_ResolvedClean ==
  Resolved =>
    /\ NoRepeat(testEntryFiles)
    /\ \A k \in DOMAIN testEntryFiles : \A r \in DOMAIN disclude :
         ~Matches(disclude[r], testEntryFiles[k])

\* C8: a unit whose binary could not be instantiated has made the process
\* end with status 1 in that callback; the unit is not run and nothing else
\* is awaited.
C8_InstantiateFailureFatal ==
  \A i \in Units :
    (i \in completed /\ binaries[i] # None /\ ~InstantiateOk(outcome[i]))
      => (Ended /\ exitCode = 1 /\ i \notin instantiated /\ i \notin ran)

\* instantiation failed while another issued unit had not completed
C8_Witness ==
  \E i \in Units :
    /\ i \in completed
    /\ outcome[i] = "trap"
    /\ binaries[i] = i
    /\ \E j \in 1..issued : j # i /\ j \notin completed
    /\ exitCode = 1

\* the status that a set of unit outcomes leads to
ExpectedStatus(S) == IF S \cap {"fail", "error", "nobinary"} # {} THEN 1 ELSE 0

Positions(i) == {k \in DOMAIN reported : reported[k].unit = i}

C11_ConfigFailureFatal ==
  configLoad = "threw" =>
    /\ pc = "ended"
    /\ exitCode = 1
    /\ exitCalls = 1
    /\ testEntryFiles = <<>>
    /\ issued = 0
    /\ compileArgs = <<>>
    /\ completed = {}
    /\ ran = {}
    /\ count = 0
    /\ failed = FALSE

\* the load failed although the include patterns had files to offer
C11_Witness ==
  /\ configLoad = "threw"
  /\ exitCode = 1
  /\ Len(GlobAll(includeMatches)) >= 2

\* C14: count starts at the number of resolved spec files, goes down by one
\* for every unit whose completion callback has fired, never becomes
\* negative, and always equals N minus the number of those units.
C14_PendingCounter ==
  Resolved =>
    /\ count >= 0
    /\ count = N - Cardinality(completed)

C16_FailureDoesNotStop ==
  (Resolved /\ \A i \in Units : ~HitFatal(i)) =>
    /\ ((\E i \in Units : ReportedFail(i)) /\ count > 0) => Alive
    /\ exitCode = 1 =>
         /\ count = 0
         /\ ran = Units
         /\ \A i \in Units : Positions(i) # {}

\* a unit failed, a later callback ran another unit, a third is pending
C16_Witness ==
  /\ Alive
  /\ Len(reported) >= 2
  /\ ~reported[1].pass
  /\ reported[2].pass
  /\ count > 0

\* C17: once the process has begun to terminate, no step changes anything:
\* the callbacks and sink calls of the other units have no effect.
C17_InertAfterExit == [][exitCode # Running => UNCHANGED vars]_vars

\* the process ended with status 1 while the completion of one issued unit
\* and an artifact of another were still to come
C17_Witness ==
  /\ pc = "ended"
  /\ exitCode = 1
  /\ \E j \in 1..issued :
       j \notin completed /\ written[j] = Len(Artifacts(outcome[j]))
  /\ \E j \in 1..issued :
       j \notin completed /\ written[j] < Len(Artifacts(outcome[j]))

\* the path next to the spec file that carries the extension of the artifact
SiblingPath(file, ext) == SubSeq(file, 1, Len(file) - 1) \o <<ext>>

\* C18: an artifact handed to the sink of unit i goes to exactly one place:
\* a binary to binaries[i] only, a source map to sourcemaps under its name
\* only, anything else to the disk only, next to the spec file, under the
\* spec file's base name with the artifact's extension.
C18_Routing ==
  [][\A i \in DOMAIN written :
       (i \in DOMAIN written' /\ written'[i] = written[i] + 1) =>
         LET name == Artifacts(outcome[i])[written'[i]]
         IN  /\ name = BinaryName =>
                  /\ binaries' = [binaries EXCEPT ![i] = i]
                  /\ sourcemaps' = sourcemaps
                  /\ disk' = disk
             /\ name = MapName =>
                  /\ sourcemaps' = sourcemaps \cup {name}
                  /\ binaries' = binaries
                  /\ disk' = disk
             /\ name = TextName =>
                  /\ disk' = disk \cup {SiblingPath(testEntryFiles[i], ".wat")}
                  /\ binaries' = binaries
                  /\ sourcemaps' = sourcemaps
             /\ name \in {BinaryName, MapName, TextName}]_vars

\* a binary, a source map and a text artifact have all been routed, the
\* text one for a spec file inside a directory
C18_Witness ==
  /\ \E i \in Units : binaries[i] = i
  /\ MapName \in sourcemaps
  /\ \E i \in Units :
       /\ Len(testEntryFiles[i]) > 2
       /\ outcome[i] = "nobinary"
       /\ SiblingPath(testEntryFiles[i], ".wat") \in disk

\* C19: the binary instantiated and run for unit i is the one the compile of
\* unit i produced, and every run happens in an execution context of its own.
C19_OwnBinaryFreshContext ==
  \A k \in DOMAIN reported :
    /\ reported[k].binary = reported[k].unit
    /\ \A j \in DOMAIN reported : j # k => reported[j].runner # reported[k].runner

\* two units ran, out of issue order, after both binaries had been captured
C19_Witness ==
  /\ Len(reported) >= 2
  /\ reported[1].unit > reported[2].unit
  /\ \A k \in 1..2 : binaries[reported[k].unit] = reported[k].unit

\* C20: the compiler is called once per spec file, in order, with the spec
\* file, then every add match in glob order (exclude expressions not
\* applied), then the entry file of as-pect, then the flattened flags; the
\* add matches and the flags are the same for every unit.
C20_CompilerArgs ==
  /\ Len(compileArgs) = issued
  /\ \A k \in DOMAIN compileArgs :
       compileArgs[k] =
         <<testEntryFiles[k]>> \o GlobAll(addMatches) \o <<RelativeEntryPath>>
           \o FlagList(FlagsOf(configFlags))

\* two compiles were issued with an add match that an exclude expression
\* matches, and with flags that carry options
C20_Witness ==
  /\ Len(compileArgs) >= 2
  /\ \E k \in DOMAIN GlobAll(addMatches) : \E r \in DOMAIN disclude :
       Matches(disclude[r], GlobAll(addMatches)[k])
  /\ Len(FlagList(FlagsOf(configFlags))) >= 3

\* the positions of an event in the trace
Occ(e) == {p \in DOMAIN trace : trace[p] = e}

\* the tests of group g and of its descendants
TestsUnder(g) ==
  {t \in (g..Len(suite)) \X (1..MaxTests) : t[2] <= suite[t[1]].tests}

\* no test lies strictly between the positions p and q
NoTestBetween(p, q) == \A r \in (p + 1)..(q - 1) : trace[r].kind # "test"

\* C12: once a file has run, a group with beforeAll, afterAll and at least
\* one test has fired each of the two exactly once, beforeAll ahead of and
\* afterAll behind every test of the group and of its descendants, its own
\* tests in registration order; beforeEach and afterEach of a group fire once
\* around every test of the group and of its descendants.
C12_HookOrder ==
  mode = "done" =>
    \A g \in DOMAIN suite :
      /\ (suite[g].tests >= 1 /\ {"beforeAll", "afterAll"} \subseteq suite[g].hooks)
           => \E b, a \in DOMAIN trace :
                /\ Occ(Hook("beforeAll", g)) = {b}
                /\ Occ(Hook("afterAll", g)) = {a}
                /\ \A t \in TestsUnder(g) :
                     \E p \in DOMAIN trace :
                       Occ(Test(t[1], t[2])) = {p} /\ b < p /\ p < a
                /\ \A n \in 1..(suite[g].tests - 1) :
                     \A p \in Occ(Test(g, n)) : \A q \in Occ(Test(g, n + 1)) :
                       p < q
      /\ "beforeEach" \in suite[g].hooks =>
           /\ Cardinality(Occ(Hook("beforeEach", g))) = Cardinality(TestsUnder(g))
           /\ \A t \in TestsUnder(g) :
                \E p \in Occ(Test(t[1], t[2])) :
                  \E h \in Occ(Hook("beforeEach", g)) :
                    h < p /\ NoTestBetween(h, p)
      /\ "afterEach" \in suite[g].hooks =>
           /\ Cardinality(Occ(Hook("afterEach", g))) = Cardinality(TestsUnder(g))
           /\ \A t \in TestsUnder(g) :
                \E p \in Occ(Test(t[1], t[2])) :
                  \E h \in Occ(Hook("afterEach", g)) :
                    p < h /\ NoTestBetween(p, h)

\* a group with all four hooks and two tests, around a subgroup with a test
C12_Witness ==
  /\ mode = "done"
  /\ Len(suite) = 2
  /\ suite[1].hooks = {"beforeAll", "afterAll", "beforeEach", "afterEach"}
  /\ suite[1].tests = 2
  /\ suite[2].tests >= 1
  /\ Len(trace) >= 11

\* C13: for the same value, matcher and arguments, the verdict reported
\* through .not is the negation of the verdict reported without it, and
\* every matcher call evaluates the matcher once.
C13_NotNegates ==
  /\ evaluations = Len(verdicts)
  /\ \A j, k \in DOMAIN verdicts :
       ( /\ verdicts[j].actual = verdicts[k].actual
         /\ verdicts[j].matcher = verdicts[k].matcher
         /\ verdicts[j].expected = verdicts[k].expected
         /\ verdicts[j].negated
         /\ ~verdicts[k].negated )
         => verdicts[j].verdict = ~verdicts[k].verdict

\* NaN compared with and without .not: the plain call fails, the negated
\* one passes
C13_Witness ==
  \E j, k \in DOMAIN verdicts :
    /\ verdicts[j].actual = NaNValue
    /\ verdicts[k].actual = NaNValue
    /\ verdicts[j].matcher = "toBeGreaterThan"
    /\ verdicts[k].matcher = "toBeGreaterThan"
    /\ verdicts[j].expected = verdicts[k].expected
    /\ verdicts[j].negated
    /\ ~verdicts[k].negated
    /\ verdicts[j].verdict
    /\ ~verdicts[k].verdict

\* the position at which a path first occurs in a list
FirstIndex(files, f) == MinOf({k \in DOMAIN files : files[k] = f})

\* C21: the resolved spec files are paths of the concatenated include
\* matches, ordered by the position of their first occurrence there, each
\* once, so that excluding leaves the other paths in their order; with
\* exclude expressions that carry no lastIndex the list holds exactly the
\* paths that no expression matches.
C21_ResolvedOrder ==
  Resolved =>
    LET all == GlobAll(includeMatches)
    IN  /\ Range(testEntryFiles) \subseteq Range(all)
        /\ \A j, k \in DOMAIN testEntryFiles :
             j < k => FirstIndex(all, testEntryFiles[j])
                        < FirstIndex(all, testEntryFiles[k])
        /\ (\A r \in DOMAIN disclude : ~Stateful(disclude[r])) =>
             Range(testEntryFiles) =
               {f \in Range(all) :
                  \A r \in DOMAIN disclude : ~Matches(disclude[r], f)}

\* a path matched by two patterns with another path in between, one path
\* excluded, and two paths left
C21_Witness ==
  /\ Resolved
  /\ LET all == GlobAll(includeMatches)
     IN  /\ \E j, k \in DOMAIN all : j + 1 < k /\ all[j] = all[k]
         /\ Range(all) \ Range(testEntryFiles) # {}
  /\ \A r \in DOMAIN disclude : ~Stateful(disclude[r])
  /\ Len(testEntryFiles) >= 2

\* the number of tokens that the first k entries of a flag mapping take
RECURSIVE TokensBefore(_, _)
TokensBefore(flags, k) ==
  IF k = 0 THEN 0
  ELSE TokensBefore(flags, k - 1) + 1 + Len(flags[k].options)

\* C23: in the flattened flag list every entry of the mapping takes, in
\* insertion order, one token for its name followed by its options in their
\* order; an entry without options takes its name only, and there is no
\* other token.
C23_FlagTokens ==
  Resolved =>
    LET flags == FlagsOf(configFlags)
    IN  /\ Len(flagList) = TokensBefore(flags, Len(flags))
        /\ \A k \in DOMAIN flags :
             LET at == TokensBefore(flags, k - 1)
             IN  /\ flagList[at + 1] = flags[k].flag
                 /\ \A j \in DOMAIN flags[k].options :
                      flagList[at + 1 + j] = flags[k].options[j]

\* a mapping whose flags have no, two and one option, in that order
C23_Witness ==
  /\ Resolved
  /\ configFlags.given
  /\ Len(configFlags.map) = 3
  /\ configFlags.map[1].options = <<>>
  /\ Len(configFlags.map[2].options) = 2
  /\ Len(flagList) = 6

\* the flag names of a mapping
FlagNames(flags) == {flags[k].flag : k \in DOMAIN flags}

\* C22: without configured flags every compile gets the binary-output
\* flag; configured flags are used as they are, no default flag added, and
\* when they lack the binary-output flag the first compile that completes
\* without error ends the process with status 1 in the missing-binary branch:
\* nothing is instantiated or run.
C22_FlagsNotRepaired ==
  Resolved =>
    /\ ~configFlags.given =>
         /\ "--binaryFile" \in Range(flagList)
         /\ \A k \in DOMAIN compileArgs : "--binaryFile" \in Range(compileArgs[k])
    /\ configFlags.given =>
         /\ flagList = FlagList(configFlags.map)
         /\ \A k \in DOMAIN compileArgs :
              compileArgs[k] = <<testEntryFiles[k]>> \o addedTestEntryFiles
                                 \o FlagList(configFlags.map)
    /\ (configFlags.given /\ "--binaryFile" \notin FlagNames(configFlags.map)) =>
         /\ ran = {}
         /\ instantiated = {}
         /\ \A i \in completed :
              /\ completed = {i}
              /\ binaries[i] = None
              /\ exitCode = 1
              /\ exitCalls = 1
              /\ pc = "ended"

\* configured flags without the binary-output flag: the first completion,
\* of a compile without error, ended the process while another was pending
C22_Witness ==
  /\ Resolved
  /\ configFlags.given
  /\ configFlags.map # <<>>
  /\ "--binaryFile" \notin FlagNames(configFlags.map)
  /\ \E i \in completed : ~CompileError(outcome[i]) /\ written[i] = 1
  /\ \E j \in 1..issued : j \notin completed
  /\ exitCode = 1

\* the place of an event in the life of a unit
Rank(kind) ==
  CASE kind = "issue"       -> 1
    [] kind = "complete"    -> 2
    [] kind = "instantiate" -> 3
    [] kind = "run"         -> 4
    [] kind = "decrement"   -> 5

\* the units for which an event of the kind has occurred
Had(kind) == {events[p].unit : p \in {q \in DOMAIN events : events[q].kind = kind}}

\* an event of the kind occurred for the unit of position p ahead of p
Earlier(kind, p) ==
  \E q \in 1..(p - 1) : events[q].kind = kind /\ events[q].unit = events[p].unit

\* C24: for every unit each event occurs at most once and in the order
\* issue, completion, instantiation, run, decrement, none without the ones
\* it follows; compiles are issued in ascending index order, one per
\* resolved spec file; a unit is instantiated and run only when its compile
\* reported no error and its binary is present.
C24_UnitOrder ==
  /\ \A p, q \in DOMAIN events :
       (p < q /\ events[p].unit = events[q].unit)
         => Rank(events[p].kind) < Rank(events[q].kind)
  /\ \A p \in DOMAIN events :
       /\ events[p].kind = "complete" => Earlier("issue", p)
       /\ events[p].kind = "instantiate" => Earlier("complete", p)
       /\ events[p].kind = "run" => Earlier("instantiate", p)
       /\ events[p].kind = "decrement" => Earlier("complete", p)
       /\ events[p].kind = "issue" =>
            /\ events[p].unit \in Units
            /\ events[p].unit =
                 1 + Cardinality({q \in 1..(p - 1) : events[q].kind = "issue"})
       /\ events[p].kind \in {"instantiate", "run"} =>
            /\ ~CompileError(outcome[events[p].unit])
            /\ binaries[events[p].unit] = events[p].unit
  /\ Had("issue") = 1..issued
  /\ Had("complete") = completed
  /\ Had("instantiate") = instantiated
  /\ Had("run") = ran
  /\ Resolved => Cardinality(Had("decrement")) = N - count
  /\ (Ended /\ exitCalls = 0 /\ \A i \in Units : ~HitFatal(i))
       => Had("issue") = Units

\* two units went through all five events, the second one completing first
C24_Witness ==
  /\ Ended
  /\ N = 2
  /\ Len(events) = 10
  /\ \E p, q \in DOMAIN events :
       /\ p < q
       /\ events[p] = Event("complete", 2)
       /\ events[q] = Event("complete", 1)
====
